---- MODULE Spec2Model ----
(***************************************************************************)
(* Model of call_forecast.py: the dual-server flow                         *)
(*   main -> get_coordinates -> get_forecast, with create_session.         *)
(* Strings are sequences of one-character strings so that substring        *)
(* search, the regular expression and float() are computed, not assumed.   *)
(* Optional values (Python None) are sequences of length 0 or 1.           *)
(***************************************************************************)
EXTENDS Integers, Sequences, FiniteSets, TLC

\* ------------------------------------------------------------------ bounds
MaxTools == 2
MaxItems == 2

\* ------------------------------------------------------- string constants
s_http == <<"h", "t", "t", "p">>
s_https == <<"h", "t", "t", "p", "s">>
s_forward_geocode == <<"f", "o", "r", "w", "a", "r", "d", "_", "g", "e", "o", "c", "o", "d", "e">>
s_get_forecast == <<"g", "e", "t", "_", "f", "o", "r", "e", "c", "a", "s", "t">>
s_lat == <<"l", "a", "t", "=">>
s_lon == <<",", " ", "l", "o", "n", "=">>

LowerAlpha == <<"a", "b", "c", "d", "e", "f", "g", "h", "i", "j", "k", "l", "m", "n", "o", "p", "q", "r", "s", "t", "u", "v", "w", "x", "y", "z">>
UpperAlpha == <<"A", "B", "C", "D", "E", "F", "G", "H", "I", "J", "K", "L", "M", "N", "O", "P", "Q", "R", "S", "T", "U", "V", "W", "X", "Y", "Z">>
DigitChars == <<"0", "1", "2", "3", "4", "5", "6", "7", "8", "9">>

Range(f) == {f[i] : i \in DOMAIN f}
AlphaSet == Range(LowerAlpha) \cup Range(UpperAlpha)
DigitSet == Range(DigitChars)
LowerOf == [c \in Range(UpperAlpha) |->
              LowerAlpha[CHOOSE i \in DOMAIN UpperAlpha : UpperAlpha[i] = c]]
DigitValOf == [c \in DigitSet |-> (CHOOSE i \in DOMAIN DigitChars : DigitChars[i] = c) - 1]
None == <<>>
Some(x) == <<x>>

\* --------------------------------------------------------- inputs (pools)
Places == { <<>>, <<"P", "a", "r", "i", "s">> }

ServerUris ==
  { <<"h", "t", "t", "p", ":", "/", "/", "h">>,
    <<"H", "T", "T", "P", "S", ":", "/", "/", "h">>,
    <<"f", "t", "p", ":", "/", "/", "h">>,
    <<"h">>,
    <<>> }

ToolNames ==
  { s_forward_geocode,
    <<"m", "y", "_", "f", "o", "r", "w", "a", "r", "d", "_", "g", "e", "o", "c", "o", "d", "e">>,
    s_get_forecast,
    <<"g", "e", "t", "_", "f", "o", "r", "e", "c", "a", "s", "t", "_", "v", "2">> }

ToolLists == UNION { [1..n -> ToolNames] : n \in 0..MaxTools }

Occ(a, b) == s_lat \o a \o s_lon \o b

GeoTexts ==
  { <<"n", "o", "n", "e">>,
    Occ(<<"1", ".", "5">>, <<"-", "2">>),
    Occ(<<"-", "0", ".", "5", "0">>, <<"3">>) \o <<";", " ">> \o Occ(<<"4">>, <<"1", ".", "5">>),
    Occ(<<"1">>, <<"2", ".", "5", ".">>),
    Occ(<<"-">>, <<"1">>),
    Occ(<<".", "5">>, <<"5", ".">>),
    Occ(<<"1", "-", "2">>, <<"3">>) \o <<";", " ">> \o Occ(<<"4">>, <<"5">>) }

ForecastTexts == { <<"s", "u", "n", "n", "y">>, <<"r", "a", "i", "n">>, <<>> }

Servers == {"geo", "weather"}

\* a content item: with a text attribute or without one
TextItem(t) == [has_text |-> TRUE, text |-> t]
OtherItem == [has_text |-> FALSE, text |-> <<>>]
Items(s) == { TextItem(t) : t \in IF s = "geo" THEN GeoTexts ELSE ForecastTexts } \cup {OtherItem}
\* items after the first: a well-formed text of the server's kind, or no text
LaterItems(s) ==
  { TextItem(IF s = "geo" THEN Occ(<<"4">>, <<"5">>) ELSE <<"r", "a", "i", "n">>), OtherItem }
\* result.content: empty, or any first item followed by up to MaxItems - 1 more
Contents(s) ==
  {<<>>} \cup
  { <<h>> \o t : h \in Items(s),
                 t \in UNION { [1..n -> LaterItems(s)] : n \in 0..(MaxItems - 1) } }

\* ------------------------------------------------------------- exceptions
NoExc == [type |-> "none", origin |-> "none", srv |-> "none", text |-> <<>>]
Exc(t, o, s, x) == [type |-> t, origin |-> o, srv |-> s, text |-> x]

\* ------------------------------------------------------ urlparse(...).scheme
IsAlpha(c) == c \in AlphaSet
SchemeChar(c) == IsAlpha(c) \/ c \in DigitSet \/ c \in {"+", "-", "."}

LowerChar(c) == IF c \in DOMAIN LowerOf THEN LowerOf[c] ELSE c

Lower(s) == [i \in DOMAIN s |-> LowerChar(s[i])]

\* index of the first ':' in url, 0 when there is none  (url.find(':') + 1)
FindColon(url) ==
  IF \E i \in DOMAIN url : url[i] = ":"
  THEN CHOOSE i \in DOMAIN url : url[i] = ":" /\ \A j \in 1..(i - 1) : url[j] # ":"
  ELSE 0

Scheme(url) ==
  LET i == FindColon(url) IN
  IF i > 1 /\ IsAlpha(url[1]) /\ \A j \in 1..(i - 1) : SchemeChar(url[j])
  THEN Lower(SubSeq(url, 1, i - 1))
  ELSE <<>>

SchemeOkFtp(scheme) == scheme \in {s_http, s_https, <<"f", "t", "p">>}
SchemeOk(scheme) == scheme \in {s_http, s_https}

\* ---------------------------------------------------------- "sub in name"
HasPrefixAt(s, i, p) ==
  /\ i + Len(p) - 1 <= Len(s)
  /\ \A k \in 1..Len(p) : s[i + k - 1] = p[k]

Contains(name, sub) == \E i \in 1..(Len(name) + 1) : HasPrefixAt(name, i, sub)

\* the for loop of lines 52-56 / 98-102, scanning from index i
RECURSIVE ScanTools(_, _, _)
ScanTools(ts, sub, i) ==
  IF i > Len(ts) THEN None
  ELSE IF Contains(ts[i], sub) THEN Some(ts[i])
  ELSE ScanTools(ts, sub, i + 1)

FindToolLast(ts, sub) ==
  IF \E i \in DOMAIN ts : Contains(ts[i], sub)
  THEN Some(ts[CHOOSE i \in DOMAIN ts : Contains(ts[i], sub)
                   /\ \A j \in DOMAIN ts : Contains(ts[j], sub) => j <= i])
  ELSE None
FindTool(ts, sub) == ScanTools(ts, sub, 1)

Required(s) == IF s = "geo" THEN s_forward_geocode ELSE s_get_forecast

\* ----------------------------------- re.search(r"lat=([-\d.]+), lon=([-\d.]+)")
ClassChar(c) == c \in DigitSet \cup {"-", "."}

\* index just past the maximal run of [-\d.] characters starting at i
RECURSIVE RunEnd(_, _)
RunEnd(s, i) ==
  IF i <= Len(s) /\ ClassChar(s[i]) THEN RunEnd(s, i + 1) ELSE i

\* the groups of a match starting at i, or None.  Both groups are greedy and
\* a shorter first group is followed by a class character, never by ','.
MatchAt(s, i) ==
  IF ~HasPrefixAt(s, i, s_lat) THEN None
  ELSE LET j == i + Len(s_lat)
           k == RunEnd(s, j)
       IN IF k = j \/ ~HasPrefixAt(s, k, s_lon) THEN None
          ELSE LET m == k + Len(s_lon)
                   n == RunEnd(s, m)
               IN IF n = m THEN None
                  ELSE Some(<<SubSeq(s, j, k - 1), SubSeq(s, m, n - 1)>>)

RECURSIVE SearchFrom(_, _)
SearchFrom(s, i) ==
  IF i > Len(s) THEN None
  ELSE IF MatchAt(s, i) # None THEN MatchAt(s, i)
  ELSE SearchFrom(s, i + 1)

ReSearch(s) == SearchFrom(s, 1)

\* ------------------------------------------------------------------ float()
IsDigit(c) == c \in DigitSet
DigitVal(c) == DigitValOf[c]
AllDigits(s) == \A i \in DOMAIN s : IsDigit(s[i])

Unsigned(s) == IF Len(s) > 0 /\ s[1] = "-" THEN Tail(s) ELSE s
DotAt(s) == IF \E i \in DOMAIN s : s[i] = "."
            THEN CHOOSE i \in DOMAIN s : s[i] = "." /\ \A j \in 1..(i - 1) : s[j] # "."
            ELSE Len(s) + 1
IntPart(s) == SubSeq(s, 1, DotAt(s) - 1)
FracPart(s) == SubSeq(s, DotAt(s) + 1, Len(s))

\* float(s) accepts [-] digits [. digits] with a digit on at least one side
FloatOk(s) ==
  LET u == Unsigned(s) IN
  /\ AllDigits(IntPart(u))
  /\ AllDigits(FracPart(u))
  /\ Len(IntPart(u)) + Len(FracPart(u)) > 0

RECURSIVE DecVal(_)
DecVal(ds) == IF ds = <<>> THEN 0
              ELSE 10 * DecVal(SubSeq(ds, 1, Len(ds) - 1)) + DigitVal(ds[Len(ds)])

\* a number m / 10^e in lowest form; float's rounding to binary is not modelled
RECURSIVE Norm(_, _)
Norm(m, e) == IF m = 0 THEN <<0, 0>>
              ELSE IF e > 0 /\ m % 10 = 0 THEN Norm(m \div 10, e - 1)
              ELSE <<m, e>>

Float(s) ==
  LET u == Unsigned(s)
      m == DecVal(IntPart(u) \o FracPart(u))
  IN Norm(IF s[1] = "-" THEN 0 - m ELSE m, Len(FracPart(u)))

\* =================================================================== state
VARIABLES
  pc,                 \* position of the single thread of control
  srv,                \* server of the running get_coordinates / get_forecast
  place_name, geo_server_uri, weather_server_uri,   \* main's configuration
  transport, session, \* per server: "none", "open", "released"
  tools, tool_name, args, result, text, retval,     \* locals of the running function
  exc,                \* the exception in flight, NoExc when there is none
  latitude, longitude, forecast,                    \* main's locals
  stdout,             \* what main's try/except printed
  log,                \* the calls made on the transports and sessions, in order
  geo_text            \* history: the text of the geocoding reply that was parsed

cfg == <<place_name, geo_server_uri, weather_server_uri>>
res == <<transport, session>>
locals == <<tools, tool_name, args, result, text, retval>>
mainv == <<latitude, longitude, forecast, stdout>>
hist == <<log, geo_text>>
vars == <<pc, srv, cfg, res, locals, exc, mainv, hist>>

Uri(s) == IF s = "geo" THEN geo_server_uri ELSE weather_server_uri

\* req is <<tool name, arguments>> for call_tool and <<>> otherwise
Call(s, op, ok, req) == [srv |-> s, op |-> op, ok |-> ok, req |-> req]

Init ==
  /\ pc = "main"
  /\ srv = "none"
  /\ place_name \in Places
  /\ geo_server_uri \in ServerUris
  /\ weather_server_uri \in ServerUris
  /\ transport = [s \in Servers |-> "none"]
  /\ session = [s \in Servers |-> "none"]
  /\ tools = None /\ tool_name = None /\ args = None
  /\ result = None /\ text = None /\ retval = None
  /\ exc = NoExc
  /\ latitude = None /\ longitude = None /\ forecast = None
  /\ stdout = <<>>
  /\ log = <<>>
  /\ geo_text = None

LocalsCleared ==
  /\ tools' = None /\ tool_name' = None /\ args' = None
  /\ result' = None /\ text' = None /\ retval' = None

\* ------------------------------------------------------------ main, 139-159
MainValidate ==
  /\ pc = "main"
  /\ IF place_name = <<>>
     THEN /\ exc' = Exc("SystemExit", "no_place", "none", <<>>)
          /\ pc' = "exit" /\ srv' = srv
     ELSE IF geo_server_uri = <<>>
     THEN /\ exc' = Exc("SystemExit", "no_geo_server", "none", <<>>)
          /\ pc' = "exit" /\ srv' = srv
     ELSE IF weather_server_uri = <<>>
     THEN /\ exc' = Exc("SystemExit", "no_weather_server", "none", <<>>)
          /\ pc' = "exit" /\ srv' = srv
     ELSE /\ exc' = exc
          /\ pc' = "cs_scheme" /\ srv' = "geo"
  /\ UNCHANGED <<cfg, res, locals, mainv, hist>>

\* ------------------------------------------------- create_session, 17-38
\* An exception raised in create_session leaves get_coordinates/get_forecast
\* before its try block and reaches main's except clause.
CheckScheme ==
  /\ pc = "cs_scheme"
  /\ IF SchemeOk(Scheme(Uri(srv)))
     THEN pc' = "cs_connect" /\ exc' = exc
     ELSE pc' = "except" /\ exc' = Exc("ValueError", "scheme", srv, Scheme(Uri(srv)))
  /\ UNCHANGED <<srv, cfg, res, locals, mainv, hist>>

\* client_ctx.__aenter__(); unpacking ctx (2 or 3 elements) changes no state
Connect ==
  /\ pc = "cs_connect"
  /\ \E ok \in BOOLEAN :
       /\ log' = Append(log, Call(srv, "connect", ok, <<>>))
       /\ IF ok
          THEN /\ transport' = [transport EXCEPT ![srv] = "open"]
               /\ pc' = "cs_enter" /\ exc' = exc
          ELSE /\ transport' = transport
               /\ pc' = "except" /\ exc' = Exc("RemoteError", "connect", srv, <<>>)
  /\ UNCHANGED <<srv, cfg, session, locals, mainv, geo_text>>

SessionEnter ==
  /\ pc = "cs_enter"
  /\ \E ok \in BOOLEAN :
       /\ log' = Append(log, Call(srv, "session_enter", ok, <<>>))
       /\ IF ok
          THEN /\ session' = [session EXCEPT ![srv] = "open"]
               /\ pc' = "cs_init" /\ exc' = exc
          ELSE /\ session' = session
               /\ pc' = "except" /\ exc' = Exc("RemoteError", "session_enter", srv, <<>>)
  /\ UNCHANGED <<srv, cfg, transport, locals, mainv, geo_text>>

Initialize ==
  /\ pc = "cs_init"
  /\ \E ok \in BOOLEAN :
       /\ log' = Append(log, Call(srv, "initialize", ok, <<>>))
       /\ IF ok
          THEN pc' = "list_tools" /\ exc' = exc
          ELSE pc' = "except" /\ exc' = Exc("RemoteError", "initialize", srv, <<>>)
  /\ UNCHANGED <<srv, cfg, res, locals, mainv, geo_text>>

\* ------------------------------ get_coordinates 45-79, get_forecast 91-113
\* An exception raised inside the try block runs the finally block first.
ListTools ==
  /\ pc = "list_tools"
  /\ \/ \E ts \in ToolLists :
          /\ log' = Append(log, Call(srv, "list_tools", TRUE, <<>>))
          /\ tools' = Some(ts)
          /\ pc' = "select" /\ exc' = exc
     \/ /\ log' = Append(log, Call(srv, "list_tools", FALSE, <<>>))
        /\ tools' = tools
        /\ pc' = "finally_1" /\ exc' = Exc("RemoteError", "list_tools", srv, <<>>)
  /\ UNCHANGED <<srv, cfg, res, tool_name, args, result, text, retval, mainv, geo_text>>

SelectTool ==
  /\ pc = "select"
  /\ tool_name' = FindTool(tools[1], Required(srv))
  /\ IF tool_name' = None
     THEN pc' = "finally_1" /\ exc' = Exc("RuntimeError", "tool_not_found", srv, <<>>)
     ELSE pc' = "call_tool" /\ exc' = exc
  /\ UNCHANGED <<srv, cfg, res, tools, args, result, text, retval, mainv, hist>>

GeoArgsEmpty(place) == [query |-> <<>>]
GeoArgs(place) == [query |-> place]
WeatherArgsSwapped(lat, lon) == [latitude |-> lon, longitude |-> lat]
WeatherArgs(lat, lon) == [latitude |-> lat, longitude |-> lon]

CallTool ==
  /\ pc = "call_tool"
  /\ args' = Some(IF srv = "geo" THEN GeoArgs(place_name)
                  ELSE WeatherArgs(latitude[1], longitude[1]))
  /\ \/ \E c \in Contents(srv) :
          /\ log' = Append(log, Call(srv, "call_tool", TRUE, <<tool_name[1], args'[1]>>))
          /\ result' = Some(c)
          /\ pc' = IF srv = "geo" THEN "parse" ELSE "first_text"
          /\ exc' = exc
     \/ /\ log' = Append(log, Call(srv, "call_tool", FALSE, <<tool_name[1], args'[1]>>))
        /\ result' = result
        /\ pc' = "finally_1" /\ exc' = Exc("RemoteError", "call_tool", srv, <<>>)
  /\ UNCHANGED <<srv, cfg, res, tools, tool_name, text, retval, mainv, geo_text>>

\* content[0]; the caller has checked that c is not empty
LastItem(c) == c[Len(c)]
FirstItem(c) == c[1]

\* result.content[0].text
FirstTextExc(c, s) ==
  IF Len(c) = 0 THEN Exc("IndexError", "content", s, <<>>)
  ELSE IF ~FirstItem(c).has_text THEN Exc("AttributeError", "content", s, <<>>)
  ELSE NoExc

\* lines 71-79 applied to the text t: the exception raised, NoExc when none
ParseExc(t) ==
  LET m == ReSearch(t) IN
  IF m = None THEN Exc("RuntimeError", "parse", "geo", t)
  ELSE IF ~FloatOk(m[1][1]) THEN Exc("ValueError", "float", "geo", m[1][1])
  ELSE IF ~FloatOk(m[1][2]) THEN Exc("ValueError", "float", "geo", m[1][2])
  ELSE NoExc

ParseCoords(t) == LET m == ReSearch(t) IN <<Float(m[1][1]), Float(m[1][2])>>

\* lines 71-79 tabulated over the texts a geocoding server returns
ParseTable ==
  [t \in GeoTexts |->
     [exc |-> ParseExc(t),
      coords |-> IF ParseExc(t) = NoExc THEN Some(ParseCoords(t)) ELSE None]]

\* get_coordinates, 68-79
ParseResult ==
  /\ pc = "parse"
  /\ LET c == result[1] IN
     IF FirstTextExc(c, srv) # NoExc
     THEN /\ exc' = FirstTextExc(c, srv)
          /\ text' = text /\ retval' = retval /\ geo_text' = geo_text
     ELSE /\ text' = Some(FirstItem(c).text)
          /\ geo_text' = text'
          /\ exc' = ParseTable[FirstItem(c).text].exc
          /\ retval' = IF exc' = NoExc THEN ParseTable[FirstItem(c).text].coords ELSE retval
  /\ pc' = "finally_1"
  /\ UNCHANGED <<srv, cfg, res, tools, tool_name, args, result, mainv, log>>

\* get_forecast, 113
FirstText ==
  /\ pc = "first_text"
  /\ LET c == result[1] IN
     /\ exc' = FirstTextExc(c, srv)
     /\ retval' = IF exc' = NoExc THEN Some(FirstItem(c).text) ELSE retval
  /\ pc' = "finally_1"
  /\ UNCHANGED <<srv, cfg, res, tools, tool_name, args, result, text, mainv, hist>>

\* ------------------------------------------- finally, 80-82 and 114-116
\* The two statements of the finally block, in program order.
ReleaseOrderSwapped == <<"transport", "session">>
ReleaseOrderSessionTwice == <<"session", "session">>
ReleaseOrder == <<"session", "transport">>

ExitOp(r) == IF r = "session" THEN "session_exit" ELSE "transport_exit"

\* await <r>.__aexit__(None, None, None) on the running function's server
ExitCalled(r, ok) ==
  /\ log' = Append(log, Call(srv, ExitOp(r), ok, <<>>))
  /\ session' = IF r = "session" THEN [session EXCEPT ![srv] = "released"] ELSE session
  /\ transport' = IF r = "transport" THEN [transport EXCEPT ![srv] = "released"] ELSE transport

\* An exception raised by an __aexit__ replaces the one in flight and leaves
\* the finally block at once.
FinallyFirst ==
  /\ pc = "finally_1"
  /\ \E ok \in BOOLEAN :
       /\ ExitCalled(ReleaseOrder[1], ok)
       /\ IF ok
          THEN /\ pc' = "finally_2" /\ exc' = exc
               /\ UNCHANGED locals
          ELSE /\ pc' = "except" /\ exc' = Exc("RemoteError", ExitOp(ReleaseOrder[1]), srv, <<>>)
               /\ LocalsCleared
  /\ UNCHANGED <<srv, cfg, mainv, geo_text>>

\* After the last statement the pending exception is re-raised, or the
\* function returns: main line 159 binds latitude, longitude and calls
\* get_forecast (163); line 163 binds forecast.
FinallySecond ==
  /\ pc = "finally_2"
  /\ \E ok \in BOOLEAN :
       /\ ExitCalled(ReleaseOrder[2], ok)
       /\ IF ~ok
          THEN /\ pc' = "except" /\ exc' = Exc("RemoteError", ExitOp(ReleaseOrder[2]), srv, <<>>)
               /\ UNCHANGED <<srv, latitude, longitude, forecast>>
          ELSE IF exc # NoExc
          THEN /\ pc' = "except" /\ exc' = exc
               /\ UNCHANGED <<srv, latitude, longitude, forecast>>
          ELSE IF srv = "geo"
          THEN /\ latitude' = Some(retval[1][1]) /\ longitude' = Some(retval[1][2])
               /\ srv' = "weather" /\ pc' = "cs_scheme" /\ exc' = exc
               /\ forecast' = forecast
          ELSE /\ forecast' = Some(retval[1])
               /\ pc' = "print" /\ exc' = exc
               /\ UNCHANGED <<srv, latitude, longitude>>
  /\ LocalsCleared
  /\ UNCHANGED <<cfg, stdout, geo_text>>

\* ------------------------------------------------------- main, 165-172
PrintForecast ==
  /\ pc = "print"
  /\ stdout' = Append(stdout, [kind |-> "forecast", text |-> forecast[1], exc |-> NoExc])
  /\ pc' = "done"
  /\ UNCHANGED <<srv, cfg, res, locals, exc, latitude, longitude, forecast, hist>>

\* a handler that falls back to default coordinates when step 1 fails
MainExceptFallback ==
  /\ pc = "except"
  /\ stdout' = Append(stdout, [kind |-> "error", text |-> <<>>, exc |-> exc])
  /\ IF srv = "geo"
     THEN /\ latitude' = Some(<<0, 0>>) /\ longitude' = Some(<<0, 0>>)
          /\ srv' = "weather" /\ pc' = "cs_scheme" /\ exc' = NoExc
     ELSE /\ pc' = "failed"
          /\ UNCHANGED <<srv, exc, latitude, longitude>>
  /\ UNCHANGED <<cfg, res, locals, forecast, hist>>

\* a handler that runs the failed step once more before giving up
MainExceptRetry ==
  /\ pc = "except"
  /\ stdout' = Append(stdout, [kind |-> "error", text |-> <<>>, exc |-> exc])
  /\ IF Len(stdout) = 0
     THEN pc' = "cs_scheme" /\ exc' = NoExc
     ELSE pc' = "failed" /\ exc' = exc
  /\ UNCHANGED <<srv, cfg, res, locals, latitude, longitude, forecast, hist>>

\* a handler without the final raise: main ends normally after an error
MainExceptSwallow ==
  /\ pc = "except"
  /\ stdout' = Append(stdout, [kind |-> "error", text |-> <<>>, exc |-> exc])
  /\ pc' = "done" /\ exc' = NoExc
  /\ UNCHANGED <<srv, cfg, res, locals, latitude, longitude, forecast, hist>>

\* except Exception as e: print(f"Error: {e}"); raise
MainExcept ==
  /\ pc = "except"
  /\ stdout' = Append(stdout, [kind |-> "error", text |-> <<>>, exc |-> exc])
  /\ pc' = "failed"
  /\ UNCHANGED <<srv, cfg, res, locals, exc, latitude, longitude, forecast, hist>>

Next ==
  \/ MainValidate
  \/ CheckScheme \/ Connect \/ SessionEnter \/ Initialize
  \/ ListTools \/ SelectTool \/ CallTool \/ ParseResult \/ FirstText
  \/ FinallyFirst \/ FinallySecond
  \/ PrintForecast \/ MainExcept

Spec == Init /\ [][Next]_vars

\* Every await completes or raises and the single thread then goes on.
FairSpec == Spec /\ WF_vars(Next)

\* ================================================================== claims
Open(s) == transport[s] = "open" \/ session[s] = "open"
Released(s) == transport[s] = "released" /\ session[s] = "released"
Ops(s) == SelectSeq([i \in DOMAIN log |-> log[i]], LAMBDA e : e.srv = s)
WeatherContacted ==
  \/ srv = "weather"
  \/ \E i \in DOMAIN log : log[i].srv = "weather"
  \/ transport["weather"] # "none"
  \/ session["weather"] # "none"
GeoFailed == exc # NoExc /\ exc.srv = "geo"
GeoOpsComplete ==
  /\ [i \in DOMAIN Ops("geo") |-> Ops("geo")[i].op] =
       <<"connect", "session_enter", "initialize", "list_tools", "call_tool",
         "session_exit", "transport_exit">>
  /\ \A i \in DOMAIN Ops("geo") : Ops("geo")[i].ok

\* C1: once the geocode step has failed (an exception was raised in
\* create_session or get_coordinates for the geo server) the weather server
\* is never contacted; whenever the weather server is contacted, every geo
\* operation has succeeded and the geocoding reply was parsed.
C1_GeoFailureBlocksWeather ==
  /\ GeoFailed => ~WeatherContacted
  /\ WeatherContacted =>
       /\ GeoOpsComplete
       /\ geo_text # None
       /\ ParseExc(geo_text[1]) = NoExc
C1_Witness ==
  pc = "failed" /\ exc.srv = "geo" /\ exc.origin = "tool_not_found"

\* C2: when get_coordinates / get_forecast has returned or raised, no
\* transport that was opened and no session that was entered is still open.
C2_AllReleasedOnExit ==
  pc \in {"except", "failed", "print", "done"} =>
    \A s \in Servers : transport[s] # "open" /\ session[s] # "open"

\* C3: per server the transport is entered before the session, the session's
\* exit is called before the transport's exit, and the transport is never
\* released while its session is still open.
C3_ReverseRelease ==
  \A s \in Servers :
    /\ transport[s] = "released" => session[s] # "open"
    /\ session[s] # "none" => transport[s] # "none"
    /\ \A i, j \in DOMAIN log :
         /\ log[i].srv = s /\ log[j].srv = s
         /\ \/ log[i].op = "connect" /\ log[j].op = "session_enter"
            \/ log[i].op = "session_exit" /\ log[j].op = "transport_exit"
         => i < j
C3_Witness ==
  Released("weather") /\ Released("geo") /\ pc = "done"

\* C4: a server whose URI scheme is not http or https is never connected to:
\* create_session raises ValueError with nothing opened and no call made;
\* a URI with scheme http or https passes the check.
C4_SchemeChecked ==
  \A s \in Servers :
    LET scheme == Scheme(Uri(s)) IN
    IF scheme \notin {s_http, s_https}
    THEN /\ transport[s] = "none" /\ session[s] = "none"
         /\ \A i \in DOMAIN log : log[i].srv # s
         /\ srv = s /\ pc # "cs_scheme" =>
              /\ pc \in {"except", "failed"}
              /\ exc = Exc("ValueError", "scheme", s, scheme)
    ELSE srv = s /\ pc # "cs_scheme" => exc.origin # "scheme"
C4_Witness ==
  /\ pc = "failed" /\ exc.origin = "scheme" /\ exc.srv = "weather"
  /\ Scheme(weather_server_uri) = <<"f", "t", "p">>
  /\ Scheme(geo_server_uri) = s_https

\* C5: the weather server is contacted only after the coordinates have been
\* returned and the geo session and transport have been released; the two
\* servers are never open at once; no geo call follows a weather call.
C5_NoOverlap ==
  /\ WeatherContacted =>
       /\ latitude # None /\ longitude # None
       /\ Released("geo")
  /\ ~(Open("geo") /\ Open("weather"))
  /\ \A i, j \in DOMAIN log : i < j /\ log[i].srv = "weather" => log[j].srv = "weather"
C5_Witness ==
  session["weather"] = "open" /\ tools # None

\* C6: every call of the weather tool carries exactly the latitude and
\* longitude captured by the pattern match on the geocoding reply text.
C6_WeatherArgsFromMatch ==
  \A i \in DOMAIN log :
    log[i].srv = "weather" /\ log[i].op = "call_tool" =>
      /\ geo_text # None
      /\ ReSearch(geo_text[1]) # None
      /\ LET g == ReSearch(geo_text[1])[1] IN
           /\ FloatOk(g[1]) /\ FloatOk(g[2])
           /\ log[i].req[2] = [latitude |-> Float(g[1]), longitude |-> Float(g[2])]
C6_Witness ==
  \E i \in DOMAIN log :
    /\ log[i].srv = "weather" /\ log[i].op = "call_tool"
    /\ log[i].req[2] = [latitude |-> <<-5, 1>>, longitude |-> <<3, 0>>]

\* C7: after selection the chosen name is the listed name of smallest index
\* that contains the required substring, and nothing is chosen exactly when
\* no listed name contains it.
C7_FirstMatchSelected ==
  tools # None /\ pc # "select" =>
    LET ts == tools[1]
        sub == Required(srv)
    IN /\ tool_name = None <=> \A i \in DOMAIN ts : ~Contains(ts[i], sub)
       /\ tool_name # None =>
            \E i \in DOMAIN ts :
              /\ Contains(ts[i], sub)
              /\ \A j \in 1..(i - 1) : ~Contains(ts[j], sub)
              /\ tool_name[1] = ts[i]
C7_Witness ==
  /\ pc = "call_tool" /\ srv = "geo"
  /\ Len(tools[1]) = 2
  /\ tools[1][2] = s_forward_geocode
  /\ tool_name # None /\ tool_name[1] # s_forward_geocode

\* C8: once the required tool was not found, call_tool is never issued on
\* that session, the flow only runs the finally block and fails, and when the
\* function is left the session and the transport have both been released.
C8_ToolNotFoundHardFailure ==
  [][ exc.origin = "tool_not_found" =>
        /\ pc' \in {"finally_1", "finally_2", "except", "failed"}
        /\ exc' # NoExc
        /\ \A i \in DOMAIN log' : ~(log'[i].srv = srv /\ log'[i].op = "call_tool")
        /\ pc' \in {"except", "failed"} =>
             session'[srv] = "released" /\ transport'[srv] = "released"
    ]_vars

\* --- the pattern of the specification: lat=<signed-decimal>, lon=<signed-decimal>
SignedDecimal(s) ==
  LET u == Unsigned(s) IN
  /\ Len(IntPart(u)) > 0 /\ AllDigits(IntPart(u))
  /\ \/ DotAt(u) = Len(u) + 1
     \/ Len(FracPart(u)) > 0 /\ AllDigits(FracPart(u))

\* an occurrence at i whose first number ends at k and second number at n
StrictOccAt(t, i, k, n) ==
  /\ HasPrefixAt(t, i, s_lat)
  /\ SignedDecimal(SubSeq(t, i + 4, k))
  /\ HasPrefixAt(t, k + 1, s_lon)
  /\ n <= Len(t)
  /\ SignedDecimal(SubSeq(t, k + 7, n))

StrictOccs(t) ==
  { o \in (DOMAIN t) \X (DOMAIN t) \X (DOMAIN t) : StrictOccAt(t, o[1], o[2], o[3]) }

\* the leftmost occurrence, its second number taken as long as possible
LeftmostOcc(t) ==
  CHOOSE o \in StrictOccs(t) :
    \A q \in StrictOccs(t) : o[1] < q[1] \/ (o[1] = q[1] /\ o[3] >= q[3])

LeftmostPair(t) ==
  LET o == LeftmostOcc(t) IN
  <<Float(SubSeq(t, o[1] + 4, o[2])), Float(SubSeq(t, o[2] + 7, o[3]))>>

\* C9: for a reply text with at least one occurrence of the pattern,
\* extraction yields the two numbers of the leftmost occurrence.
C9_LeftmostOccurrenceExtracted ==
  text # None /\ StrictOccs(text[1]) # {} =>
    /\ exc = NoExc
    /\ retval = Some(LeftmostPair(text[1]))

\* C10: for a reply text with no occurrence of the pattern, extraction fails
\* with the parse error carrying the reply text, yields no pair, and the
\* weather tool is not called.
C10_NoOccurrenceParseError ==
  /\ text # None /\ StrictOccs(text[1]) = {} =>
       /\ exc = Exc("RuntimeError", "parse", "geo", text[1])
       /\ retval = None
  /\ geo_text # None /\ StrictOccs(geo_text[1]) = {} =>
       \A i \in DOMAIN log : ~(log[i].srv = "weather" /\ log[i].op = "call_tool")

\* C11: a configuration error (missing place name, missing geo or weather
\* URI, unsupported scheme of either URI) is raised before any network
\* activity: nothing was opened and no call was made on either server.
ConfigError == exc.type = "SystemExit" \/ exc.origin = "scheme"
C11_ConfigErrorBeforeNetwork ==
  ConfigError =>
    /\ log = <<>>
    /\ \A s \in Servers : transport[s] = "none" /\ session[s] = "none"

\* C12: when a tool result has at least one content item, the text that is
\* parsed (geo) and the text that is returned (weather) is the text of the
\* item at index 0; a first item without text yields no value at all.
C12_FirstItemWins ==
  result # None /\ pc \in {"finally_1", "finally_2"} /\ Len(result[1]) >= 1 =>
    LET first == result[1][1] IN
    IF ~first.has_text THEN text = None /\ retval = None
    ELSE IF srv = "geo"
    THEN /\ text = Some(first.text)
         /\ retval # None =>
              /\ ReSearch(first.text) # None
              /\ retval[1] = <<Float(ReSearch(first.text)[1][1]),
                               Float(ReSearch(first.text)[1][2])>>
    ELSE retval = Some(first.text)
C12_Witness ==
  /\ srv = "weather" /\ pc = "finally_1" /\ result # None
  /\ Len(result[1]) = 2
  /\ result[1][1] = TextItem(<<"s", "u", "n", "n", "y">>)
  /\ result[1][2] = TextItem(<<"r", "a", "i", "n">>)
  /\ retval = Some(<<"s", "u", "n", "n", "y">>)

\* C13: an error, once raised, is the error that reaches the top level: no
\* later step replaces it; when main has failed the error was printed once
\* and no forecast was produced.
C13_ErrorPropagatesUnchanged ==
  [][ /\ exc # NoExc => exc' = exc
      /\ pc' = "failed" =>
           /\ stdout' = <<[kind |-> "error", text |-> <<>>, exc |-> exc']>>
           /\ forecast' = None
    ]_vars

\* C14: per server each of connect, session enter, initialize, list_tools
\* and call_tool is attempted at most once, and after one of them has failed
\* the only later calls are exits on the same server.
RemoteOps == {"connect", "session_enter", "initialize", "list_tools", "call_tool"}
ExitOps == {"session_exit", "transport_exit"}
C14_NoRetries ==
  \A i, j \in DOMAIN log :
    i < j =>
      /\ ~(log[i].srv = log[j].srv /\ log[i].op = log[j].op /\ log[i].op \in RemoteOps)
      /\ ~log[i].ok /\ log[i].op \in RemoteOps =>
           log[j].op \in ExitOps /\ log[j].srv = log[i].srv
C14_Witness ==
  /\ pc = "failed"
  /\ Len(log) > 2
  /\ LET e == log[Len(log) - 2] IN
       e.srv = "weather" /\ e.op = "call_tool" /\ ~e.ok

\* C15: every run ends in success or in failure and never moves backwards
\* through the steps.  Success means that the geo session, the geocode, the
\* weather session and the forecast all succeeded in this order and the
\* forecast was produced; failure means that the error of the step that
\* failed, after which no further step was started, reached the caller.
Stage ==
  IF pc = "main" THEN 0
  ELSE IF pc \in {"cs_scheme", "cs_connect", "cs_enter", "cs_init"}
  THEN (IF srv = "geo" THEN 1 ELSE 3)
  ELSE IF pc \in {"list_tools", "select", "call_tool", "parse", "first_text",
                  "finally_1", "finally_2"}
  THEN (IF srv = "geo" THEN 2 ELSE 4)
  ELSE IF pc = "print" THEN 4
  ELSE 5
Terminal == pc \in {"done", "failed", "exit"}
SessionOps ==
  <<"connect", "session_enter", "initialize", "list_tools", "call_tool",
    "session_exit", "transport_exit">>
AllSucceeded ==
  /\ [i \in DOMAIN log |-> <<log[i].srv, log[i].op>>] =
       [i \in 1..7 |-> <<"geo", SessionOps[i]>>] \o [i \in 1..7 |-> <<"weather", SessionOps[i]>>]
  /\ \A i \in DOMAIN log : log[i].ok
SuccessState ==
  /\ exc = NoExc
  /\ AllSucceeded
  /\ latitude # None /\ longitude # None /\ forecast # None
  /\ stdout = <<[kind |-> "forecast", text |-> forecast[1], exc |-> NoExc]>>
\* the step an error origin or a remote operation belongs to: acquiring the
\* session (create_session) or the body of get_coordinates / get_forecast
AcquireOrigins == {"scheme", "connect", "session_enter", "initialize"}
StepOf(o) == IF o \in AcquireOrigins THEN "acquire" ELSE "body"
FailureState ==
  /\ exc # NoExc
  /\ forecast = None
  /\ \A i \in DOMAIN stdout : stdout[i].kind # "forecast"
  /\ pc = "failed" =>
       /\ exc.srv = srv
       /\ \A i \in DOMAIN log : log[i].srv # srv => log[i].ok
       /\ srv = "geo" => \A i \in DOMAIN log : log[i].srv = "geo"
       /\ \A i \in DOMAIN log : ~log[i].ok => StepOf(log[i].op) = StepOf(exc.origin)
C15_TerminatesInOrder ==
  /\ <>Terminal
  /\ [][Stage' >= Stage /\ (Terminal => pc' = pc)]_vars
  /\ [](pc = "done" => SuccessState)
  /\ [](pc \in {"failed", "exit"} => FailureState)
C15_Witness ==
  pc = "done" /\ SuccessState

\* ---------------------------------------------------------------- C16
CreatedOk(s) == \E i \in DOMAIN log : log[i].srv = s /\ log[i].op = "initialize" /\ log[i].ok
\* the body of get_coordinates (s = "geo") or get_forecast has been left
BodyLeft(s) ==
  IF s = "geo" THEN srv = "weather" \/ (srv = "geo" /\ pc \in {"except", "failed"})
  ELSE srv = "weather" /\ pc \in {"except", "failed", "print", "done"}
ExitCount(s, op) == Cardinality({i \in DOMAIN log : log[i].srv = s /\ log[i].op = op})
ReleaseFailed(s) == \E i \in DOMAIN log : log[i].srv = s /\ log[i].op \in ExitOps /\ ~log[i].ok

\* C16: for a server whose create_session returned, once the body of
\* get_coordinates / get_forecast has been left on any path and no release
\* call failed, session exit and transport exit have each been called exactly
\* once; neither is ever called twice, and neither is called before the body
\* reaches its finally block.
C16_ExitsCalledOnce ==
  \A s \in Servers : \A op \in ExitOps :
    /\ ExitCount(s, op) <= 1
    /\ CreatedOk(s) /\ BodyLeft(s) /\ ~ReleaseFailed(s) => ExitCount(s, op) = 1
    /\ s = srv /\ pc \in {"list_tools", "select", "call_tool", "parse", "first_text", "finally_1"}
         => ExitCount(s, "transport_exit") = 0
C16_Witness ==
  /\ pc = "failed" /\ srv = "weather" /\ exc.origin = "tool_not_found"
  /\ \A s \in Servers : CreatedOk(s) /\ ~ReleaseFailed(s)
                        /\ \A op \in ExitOps : ExitCount(s, op) = 1

\* ---------------------------------------------------------------- C17
\* C17: every call_tool of a session comes after a successful connect,
\* initialize and list_tools of the same session, in that order; the tool
\* name it passes contains the required substring and, while the function's
\* locals are alive, is a name of that session's list_tools response; the
\* geo session is called with {query: place_name} only.
C17_ProtocolOrder ==
  \A j \in DOMAIN log : log[j].op = "call_tool" =>
    LET s == log[j].srv
        Ok(i, op) == log[i].srv = s /\ log[i].op = op /\ log[i].ok
    IN /\ \E a, b, c \in 1..(j - 1) :
            a < b /\ b < c /\ Ok(a, "connect") /\ Ok(b, "initialize") /\ Ok(c, "list_tools")
       /\ Contains(log[j].req[1], Required(s))
       /\ s = "geo" => log[j].req[2] = [query |-> place_name]
       /\ s = srv /\ tools # None =>
            /\ log[j].req[1] \in Range(tools[1])
            /\ tool_name = Some(log[j].req[1])
            /\ args = Some(log[j].req[2])
C17_Witness ==
  /\ pc = "parse" /\ tools # None /\ Len(tools[1]) = 2
  /\ tools[1][1] = s_get_forecast
  /\ log[Len(log)].op = "call_tool"
  /\ log[Len(log)].req = <<tools[1][2], [query |-> place_name]>>

====
